---- MODULE Spec2Model ----
(***************************************************************************)
(* A model of computeSales.py: the JSON loader, the catalog builder, the   *)
(* sales parser, the aggregator and the orchestrator main().               *)
(*                                                                         *)
(* JSON values are records [k |-> kind, v |-> payload].  Strings are       *)
(* sequences of characters so that str.strip() is computed.  Python floats *)
(* are binary floating-point numbers with round-to-nearest-even; the model *)
(* keeps the rounding and shortens the mantissa and the exponent range.    *)
(* A float is counted in units of one half, so 1.5 is 3 units.             *)
(*                                                                         *)
(* Spec is a whole run of main().  SpecCatalog, SpecSales and SpecTotals   *)
(* are build_price_catalog, parse_sales and compute_totals on their own,   *)
(* each over every input of its bounded domain.                            *)
(***************************************************************************)
EXTENDS Integers, Sequences, FiniteSets, TLC

\* ------------------------------------------------------------------ bounds
MantissaBits == 3
MaxExponent == 8
MaxCatalogLen == 2
MaxSalesLen == 2
MaxLines == 3
MainCatalogLen == 2
MainSalesLen == 2

\* ------------------------------------------------------- Python floats
RECURSIVE Pow2(_)
Pow2(n) == IF n = 0 THEN 1 ELSE 2 * Pow2(n - 1)

Abs(n) == IF n < 0 THEN 0 - n ELSE n

RECURSIVE Ulp(_, _)
\* the spacing of the floats around magnitude m
Ulp(m, s) == IF m \div s < Pow2(MantissaBits) THEN s ELSE Ulp(m, 2 * s)

\* round-to-nearest, ties to even, of an exact magnitude m (in units)
RoundMag(m) ==
    LET s == Ulp(m, 1)
        q == m \div s
        r == m % s
        up == (2 * r > s) \/ (2 * r = s /\ q % 2 = 1)
    IN  IF up THEN (q + 1) * s ELSE q * s

Fin(u) == [c |-> "fin", u |-> u]
Inf(sign) == [c |-> "inf", u |-> sign]
NaN == [c |-> "nan", u |-> 0]
Sign(n) == IF n < 0 THEN 0 - 1 ELSE 1

\* the float nearest to the exact value n units; beyond the range, infinity
Round(n) ==
    LET m == RoundMag(Abs(n))
    IN  IF m >= Pow2(MaxExponent) THEN Inf(Sign(n)) ELSE Fin(Sign(n) * m)

\* float(i) for a Python int i: OverflowError when i is beyond the range
IntFits(i) == Round(2 * i).c = "fin"
FromInt(i) == Round(2 * i)

\* a + b on floats
FAdd(a, b) ==
    CASE a.c = "nan" \/ b.c = "nan" -> NaN
      [] a.c = "inf" /\ b.c = "inf" -> IF a.u = b.u THEN a ELSE NaN
      [] a.c = "inf" -> a
      [] b.c = "inf" -> b
      [] OTHER -> Round(a.u + b.u)

\* a * i for a float a and a Python int i that fits a float
FMul(a, i) ==
    LET f == FromInt(i)
    IN  CASE a.c = "nan" -> NaN
          [] a.c = "inf" -> IF f.u = 0 THEN NaN ELSE Inf(a.u * Sign(f.u))
          [] OTHER -> Round(a.u * (f.u \div 2))

Zero == Fin(0)

\* ------------------------------------------------------- Python strings
RECURSIVE LStrip(_)
LStrip(s) == IF s # <<>> /\ Head(s) = " " THEN LStrip(Tail(s)) ELSE s

RECURSIVE RStrip(_)
RStrip(s) ==
    IF s # <<>> /\ s[Len(s)] = " " THEN RStrip(SubSeq(s, 1, Len(s) - 1)) ELSE s

\* str.strip()
Strip(s) == RStrip(LStrip(s))

\* ---------------------------------------------------------- JSON values
JNull == [k |-> "null", v |-> 0]
JAbsent == [k |-> "absent", v |-> 0]
JBool(b) == [k |-> "bool", v |-> b]
JInt(i) == [k |-> "int", v |-> i]
JFloat(u) == [k |-> "float", v |-> u]
JStr(s) == [k |-> "str", v |-> s]
JArr == [k |-> "array", v |-> 0]
JObj == [k |-> "object", v |-> 0]
JDict(fields) == [k |-> "dict", v |-> fields]
JList(items) == [k |-> "list", v |-> items]

\* isinstance(x, int): bool is a subclass of int in Python
IsInstanceInt(x) == x.k \in {"int", "bool"}
\* isinstance(x, (int, float))
IsInstanceNumber(x) == x.k \in {"int", "bool", "float"}
IsInstanceStr(x) == x.k = "str"
IsInstanceDict(x) == x.k = "dict"
IsInstanceList(x) == x.k = "list"

\* dict.get(key): None for a missing key
Get(field) == IF field.k = "absent" THEN JNull ELSE field

\* float(price) for a value that passed isinstance(price, (int, float))
ToFloat(x) == IF x.k = "float" THEN Fin(x.v) ELSE FromInt(x.v)
ToFloatRaises(x) == x.k # "float" /\ ~IntFits(x.v)

\* ------------------------------------------------------ console messages
\* One printed line: its severity tag, which message it is, and what its text
\* names (idx: the "#idx" of the text, name: the product or title, num: the
\* SALE_ID or the quantity).  doc and pos record the input element the
\* message was printed for (0 when it is about no element).
Msg(sev, what, idx, name, num, doc, pos) ==
    [sev |-> sev, what |-> what, idx |-> idx, name |-> name, num |-> num,
     doc |-> doc, pos |-> pos]

\* ------------------------------------------------------ Python dicts
\* totals_by_sale is a dict: a sequence of entries in insertion order
DictKeys(d) == {d[j].key : j \in 1..Len(d)}
DictHas(d, key) == \E j \in 1..Len(d) : d[j].key = key
DictGet(d, key, default) ==
    IF DictHas(d, key)
    THEN d[CHOOSE j \in 1..Len(d) : d[j].key = key].val
    ELSE default
DictSet(d, key, val) ==
    IF DictHas(d, key)
    THEN [j \in 1..Len(d) |-> IF d[j].key = key THEN [key |-> key, val |-> val] ELSE d[j]]
    ELSE Append(d, [key |-> key, val |-> val])

\* prices[title] = value on the title -> price mapping
PricesSet(p, title, value) ==
    [t \in DOMAIN p \cup {title} |-> IF t = title THEN value ELSE p[t]]
EmptyPrices == [t \in {} |-> Zero]

\* ------------------------------------------------- build_price_catalog
\* One iteration of the loop over the catalog list: the mapping after it,
\* the lines it prints, and whether float(price) raised OverflowError.
BuildItem(p, item, idx) ==
    IF ~IsInstanceDict(item)
    THEN [prices |-> p, raised |-> FALSE,
          msgs |-> <<Msg("ERROR", "product_not_object", idx, <<>>, 0, "catalog", idx)>>]
    ELSE LET title == Get(item.v.title)
             price == Get(item.v.price)
         IN  IF ~IsInstanceStr(title) \/ Strip(title.v) = <<>>
             THEN [prices |-> p, raised |-> FALSE,
                   msgs |-> <<Msg("ERROR", "title_invalid", idx, <<>>, 0, "catalog", idx)>>]
             ELSE IF ~IsInstanceNumber(price)
             THEN [prices |-> p, raised |-> FALSE,
                   msgs |-> <<Msg("ERROR", "price_not_numeric", 0, title.v, 0, "catalog", idx)>>]
             ELSE IF ToFloatRaises(price)
             THEN [prices |-> p, raised |-> TRUE, msgs |-> <<>>]
             ELSE [prices |-> PricesSet(p, Strip(title.v), ToFloat(price)),
                   raised |-> FALSE, msgs |-> <<>>]

\* --------------------------------------------------------- parse_sales
SaleLine(sale_id, product, quantity) ==
    [sale_id |-> sale_id, product |-> product, quantity |-> quantity]

\* One iteration of the loop over the sales list: the lines it appends to
\* parsed (none or one) and the lines it prints.
ParseItem(item, idx) ==
    IF ~IsInstanceDict(item)
    THEN [lines |-> <<>>,
          msgs |-> <<Msg("ERROR", "sale_not_object", idx, <<>>, 0, "sales", idx)>>]
    ELSE LET sale_id == Get(item.v.SALE_ID)
             product == Get(item.v.Product)
             quantity == Get(item.v.Quantity)
         IN  IF ~IsInstanceInt(sale_id)
             THEN [lines |-> <<>>,
                   msgs |-> <<Msg("ERROR", "sale_id_invalid", idx, <<>>, 0, "sales", idx)>>]
             ELSE IF ~IsInstanceStr(product) \/ Strip(product.v) = <<>>
             THEN [lines |-> <<>>,
                   msgs |-> <<Msg("ERROR", "product_invalid", idx, <<>>, 0, "sales", idx)>>]
             ELSE IF ~IsInstanceInt(quantity)
             THEN [lines |-> <<>>,
                   msgs |-> <<Msg("ERROR", "quantity_invalid", idx, <<>>, 0, "sales", idx)>>]
             ELSE [lines |-> <<SaleLine(sale_id.v, Strip(product.v), quantity.v)>>,
                   msgs |-> IF quantity.v < 0
                            THEN <<Msg("WARN", "quantity_negative", idx, <<>>,
                                       quantity.v, "sales", idx)>>
                            ELSE <<>>]

\* ------------------------------------------------------ compute_totals
\* compute_totals with "=" where the code has "get(...) + line_total"
ComputeLine_Overwrite(p, totals, grand, line, pos) ==
    IF line.product \notin DOMAIN p
    THEN [totals |-> totals, grand |-> grand, raised |-> FALSE,
          msgs |-> <<Msg("ERROR", "product_not_found", 0, line.product,
                         line.sale_id, "sales", pos)>>]
    ELSE IF ~IntFits(line.quantity)
    THEN [totals |-> totals, grand |-> grand, raised |-> TRUE, msgs |-> <<>>]
    ELSE LET line_total == FMul(p[line.product], line.quantity)
         IN  [totals |-> DictSet(totals, line.sale_id, line_total),
              grand |-> FAdd(grand, line_total),
              raised |-> FALSE, msgs |-> <<>>]

\* compute_totals without the print of the unmatched branch
ComputeLine_Silent(p, totals, grand, line, pos) ==
    IF line.product \notin DOMAIN p
    THEN [totals |-> totals, grand |-> grand, raised |-> FALSE, msgs |-> <<>>]
    ELSE IF ~IntFits(line.quantity)
    THEN [totals |-> totals, grand |-> grand, raised |-> TRUE, msgs |-> <<>>]
    ELSE LET line_total == FMul(p[line.product], line.quantity)
         IN  [totals |-> DictSet(totals, line.sale_id,
                                 FAdd(DictGet(totals, line.sale_id, Zero), line_total)),
              grand |-> FAdd(grand, line_total),
              raised |-> FALSE, msgs |-> <<>>]

\* One iteration of the loop over the validated lines; pos is the place of
\* the line's element in the sales document.
ComputeLine(p, totals, grand, line, pos) ==
    IF line.product \notin DOMAIN p
    THEN [totals |-> totals, grand |-> grand, raised |-> FALSE,
          msgs |-> <<Msg("ERROR", "product_not_found", 0, line.product,
                         line.sale_id, "sales", pos)>>]
    ELSE IF ~IntFits(line.quantity)
    THEN [totals |-> totals, grand |-> grand, raised |-> TRUE, msgs |-> <<>>]
    ELSE LET line_total == FMul(p[line.product], line.quantity)
         IN  [totals |-> DictSet(totals, line.sale_id,
                                 FAdd(DictGet(totals, line.sale_id, Zero), line_total)),
              grand |-> FAdd(grand, line_total),
              raised |-> FALSE, msgs |-> <<>>]

\* ------------------------------------------------------- safe_load_json
\* A file on disk: missing, unreadable (an OSError), not valid JSON, not
\* valid UTF-8, or holding the JSON document doc.  json.load gives None
\* for the document null, and safe_load_json returns None on a failure.
File(state, doc) == [state |-> state, doc |-> doc]

safe_load_json(file, name) ==
    CASE file.state = "ok" ->
           [value |-> file.doc, raised |-> FALSE, msgs |-> <<>>]
      [] file.state = "missing" ->
           [value |-> JNull, raised |-> FALSE,
            msgs |-> <<Msg("ERROR", "file_not_found", 0, <<>>, 0, name, 0)>>]
      [] file.state = "invalid_json" ->
           [value |-> JNull, raised |-> FALSE,
            msgs |-> <<Msg("ERROR", "json_invalid", 0, <<>>, 0, name, 0)>>]
      [] file.state = "unreadable" ->
           [value |-> JNull, raised |-> FALSE,
            msgs |-> <<Msg("ERROR", "read_failed", 0, <<>>, 0, name, 0)>>]
      [] OTHER ->
           \* UnicodeDecodeError is a ValueError: no except clause catches it
           [value |-> JNull, raised |-> TRUE, msgs |-> <<>>]

\* -------------------------------------------------------- format_report
RECURSIVE SortedKeys(_)
SortedKeys(S) ==
    IF S = {} THEN <<>>
    ELSE LET m == CHOOSE x \in S : \A y \in S : x <= y
         IN  <<m>> \o SortedKeys(S \ {m})

\* f"{x:,.2f}": a finite amount in cents, else "inf", "-inf" or "nan"
Money(f) == [c |-> f.c, cents |-> IF f.c = "fin" THEN f.u * 50 ELSE f.u]

format_report(totals, grand, elapsed) ==
    LET keys == SortedKeys(DictKeys(totals))
    IN  [lines |-> [j \in 1..Len(keys) |->
                      [sale_id |-> keys[j], amount |-> Money(DictGet(totals, keys[j], Zero))]],
         placeholder |-> (totals = <<>>),
         total |-> Money(grand),
         elapsed |-> elapsed]

_add_elapsed_to_report(report, elapsed) ==
    IF report.elapsed = 0 THEN [report EXCEPT !.elapsed = elapsed] ELSE report

\* ---------------------------------------------------------------- inputs
HugeInt == Pow2(MaxExponent)
SeqsUpTo(S, n) == UNION {[1..m -> S] : m \in 0..n}

NonListDocs == {JNull, JBool(1), JInt(1), JFloat(3), JStr(<<"a">>), JObj}
NonDictItems == {JNull, JBool(1), JInt(1), JFloat(3), JStr(<<"a">>), JArr}

TitleValues ==
    {JAbsent, JNull, JBool(1), JInt(1), JFloat(3), JArr, JObj,
     JStr(<<>>), JStr(<<" ">>), JStr(<<"a">>), JStr(<<"a", " ">>), JStr(<<"b">>)}
PriceValues ==
    {JAbsent, JNull, JBool(1), JInt(4), JInt(HugeInt), JFloat(3),
     JStr(<<"a">>), JArr, JObj}
CatalogItems ==
    {JDict([title |-> t, price |-> p]) : t \in TitleValues, p \in PriceValues}
    \cup NonDictItems

SaleIdValues ==
    {JAbsent, JNull, JBool(1), JInt(1), JInt(2), JFloat(3), JStr(<<"a">>), JArr, JObj}
ProductValues ==
    {JAbsent, JNull, JBool(1), JInt(1), JFloat(3), JArr, JObj,
     JStr(<<>>), JStr(<<" ">>), JStr(<<"a">>), JStr(<<"b", " ">>)}
QuantityValues ==
    {JAbsent, JNull, JBool(1), JInt(0 - 1), JInt(2), JFloat(3), JStr(<<"a">>), JArr, JObj}
SaleItems ==
    {JDict([SALE_ID |-> s, Product |-> p, Quantity |-> q]) :
        s \in SaleIdValues, p \in ProductValues, q \in QuantityValues}
    \cup NonDictItems

\* the elements of the documents of a whole run
MainCatalogItems ==
    {JDict([title |-> JStr(<<"a">>), price |-> JFloat(3)]),
     JDict([title |-> JStr(<<"a", " ">>), price |-> JInt(4)]),
     JDict([title |-> JNull, price |-> JStr(<<"a">>)]),
     JDict([title |-> JStr(<<"b">>), price |-> JInt(HugeInt)]),
     JNull}
MainSaleItems ==
    {JDict([SALE_ID |-> JInt(1), Product |-> JStr(<<"a">>), Quantity |-> JInt(2)]),
     JDict([SALE_ID |-> JInt(2), Product |-> JStr(<<"a">>), Quantity |-> JInt(0 - 1)]),
     JDict([SALE_ID |-> JInt(1), Product |-> JStr(<<"b">>), Quantity |-> JInt(1)]),
     JDict([SALE_ID |-> JInt(1), Product |-> JStr(<<"b">>), Quantity |-> JInt(0 - 1)]),
     JDict([SALE_ID |-> JInt(2), Product |-> JStr(<<"a">>), Quantity |-> JInt(HugeInt)]),
     JDict([SALE_ID |-> JStr(<<"a">>), Product |-> JNull, Quantity |-> JAbsent]),
     JNull}

FailedStates == {"missing", "unreadable", "invalid_json", "bad_encoding"}
Files(items, n) ==
    {File(st, JNull) : st \in FailedStates}
    \cup {File("ok", d) : d \in NonListDocs}
    \cup {File("ok", JList(l)) : l \in SeqsUpTo(items, n)}

\* validated inputs of compute_totals
LineValues ==
    {SaleLine(s, p, q) : s \in {1, 2}, p \in {<<"a">>, <<"b">>}, q \in {0 - 1, 1, HugeInt}}
PriceFloats == {Fin(3), Fin(8)}
Catalogs ==
    UNION {[T -> PriceFloats] : T \in SUBSET {<<"a">>, <<"b">>}}
ElapsedTimes == {0, 1}

\* ----------------------------------------------------------------- state
VARIABLES
    pc,               \* where the run is
    argc,             \* len(argv)
    catalog_file,     \* the file at argv[1]
    sales_file,       \* the file at argv[2]
    attempted,        \* the documents safe_load_json was called for
    raw_catalog,      \* _compute_report_body: raw_catalog (JNull is None)
    raw_sales,        \* _compute_report_body: raw_sales
    prices,           \* build_price_catalog: prices
    parsed,           \* parse_sales: parsed
    origin,           \* for each line of parsed, the index of its element
    i,                \* the index of the loop that is running
    totals_by_sale,   \* compute_totals: totals_by_sale
    grand_total,      \* compute_totals: grand_total
    report,           \* main: report (<<>> before it exists)
    out,              \* the lines printed to the original standard output
    log,              \* the lines mirrored into <run-id>_Console.txt
    printed,          \* the report text printed (<<>> if none)
    stdout,           \* sys.stdout: "original" or "tee"
    results_required, \* content of results/SalesResults.txt (<<>> if not written)
    results_tc,       \* content of results/<run-id>_SalesResults.txt
    status            \* <<>> while running, else <<exit status of the process>>

vars == <<pc, argc, catalog_file, sales_file, attempted, raw_catalog, raw_sales,
          prices, parsed, origin, i, totals_by_sale, grand_total, report, out,
          log, printed, stdout, results_required, results_tc, status>>

inputVars == <<argc, catalog_file, sales_file>>
loadVars == <<attempted, raw_catalog, raw_sales>>
buildVars == <<prices>>
salesVars == <<parsed, origin>>
totalVars == <<totals_by_sale, grand_total>>
writeVars == <<printed, results_required, results_tc>>

\* an exception that leaves main ends the interpreter with status 1
Uncaught == <<1>>

\* TeeOutput.write: every stream of the tee gets the message
Emit(msgs) ==
    /\ out' = out \o msgs
    /\ log' = IF stdout = "tee" THEN log \o msgs ELSE log

\* main without the finally clause: sys.stdout keeps its value
FinallyStdout_Missing == stdout

\* the finally clause of main: sys.stdout = original_stdout
FinallyStdout == "original"

\* an exception leaves main through the finally clause
Raise ==
    /\ pc' = "done"
    /\ status' = Uncaught
    /\ stdout' = FinallyStdout

\* ---------------------------------------------------------------- main
\* the argument count, the output directory and the output paths
CheckArgs ==
    /\ pc = "start"
    /\ IF argc # 3
       THEN /\ Emit(<<Msg("INFO", "usage", 0, <<>>, 0, "none", 0),
                      Msg("INFO", "usage", 0, <<>>, 0, "none", 0)>>)
            /\ status' = <<2>>
            /\ pc' = "done"
       ELSE \E dir_ok \in BOOLEAN :
              IF dir_ok
              THEN /\ pc' = "open_log"
                   /\ UNCHANGED <<out, log, status>>
              ELSE \* ensure_dir raises before the try statement
                   /\ pc' = "done"
                   /\ status' = Uncaught
                   /\ UNCHANGED <<out, log>>
    /\ UNCHANGED <<inputVars, loadVars, buildVars, salesVars, i, totalVars, report, writeVars, stdout>>

\* with paths.console_log.open("w") ...: sys.stdout = TeeOutput([...])
OpenLog ==
    /\ pc = "open_log"
    /\ \E open_ok \in BOOLEAN :
         IF open_ok
         THEN /\ stdout' = "tee"
              /\ pc' = "load_catalog"
              /\ UNCHANGED status
         ELSE Raise
    /\ UNCHANGED <<inputVars, loadVars, buildVars, salesVars, i, totalVars, report, out, log, writeVars>>

LoadCatalog ==
    /\ pc = "load_catalog"
    /\ LET r == safe_load_json(catalog_file, "catalog")
       IN  /\ attempted' = attempted \cup {"catalog"}
           /\ IF r.raised
              THEN /\ Raise
                   /\ UNCHANGED <<raw_catalog, out, log>>
              ELSE /\ raw_catalog' = r.value
                   /\ Emit(r.msgs)
                   /\ pc' = "load_sales"
                   /\ UNCHANGED <<stdout, status>>
    /\ UNCHANGED <<inputVars, raw_sales, buildVars, salesVars, i, totalVars, report, writeVars>>

\* the second load and the test "raw_catalog is None or raw_sales is None"
LoadSales ==
    /\ pc = "load_sales"
    /\ LET r == safe_load_json(sales_file, "sales")
       IN  /\ attempted' = attempted \cup {"sales"}
           /\ IF r.raised
              THEN /\ Raise
                   /\ UNCHANGED <<raw_sales, out, log, i>>
              ELSE /\ raw_sales' = r.value
                   /\ Emit(r.msgs)
                   /\ pc' = IF raw_catalog = JNull \/ r.value = JNull
                            THEN "load_failed" ELSE "build"
                   /\ i' = 1
                   /\ UNCHANGED <<stdout, status>>
    /\ UNCHANGED <<inputVars, raw_catalog, buildVars, salesVars, totalVars, report, writeVars>>

\* report_body is None: the combined error and return 2
LoadFailed ==
    /\ pc = "load_failed"
    /\ Emit(<<Msg("ERROR", "load_failed", 0, <<>>, 0, "none", 0)>>)
    /\ status' = <<2>>
    /\ pc' = "done"
    /\ stdout' = FinallyStdout
    /\ UNCHANGED <<inputVars, loadVars, buildVars, salesVars, i, totalVars, report, writeVars>>

\* ------------------------------------------------- build_price_catalog
BuildNotList ==
    /\ pc = "build"
    /\ ~IsInstanceList(raw_catalog)
    /\ Emit(<<Msg("ERROR", "catalog_not_list", 0, <<>>, 0, "catalog", 0)>>)
    /\ pc' = "parse"
    /\ i' = 1
    /\ UNCHANGED <<inputVars, loadVars, buildVars, salesVars, totalVars, report, writeVars, stdout, status>>

BuildStep ==
    /\ pc = "build"
    /\ IsInstanceList(raw_catalog)
    /\ i <= Len(raw_catalog.v)
    /\ LET r == BuildItem(prices, raw_catalog.v[i], i)
       IN  IF r.raised
           THEN /\ Raise
                /\ UNCHANGED <<prices, i, out, log>>
           ELSE /\ prices' = r.prices
                /\ Emit(r.msgs)
                /\ i' = i + 1
                /\ UNCHANGED <<pc, stdout, status>>
    /\ UNCHANGED <<inputVars, loadVars, salesVars, totalVars, report, writeVars>>

BuildReturn ==
    /\ pc = "build"
    /\ IsInstanceList(raw_catalog)
    /\ i > Len(raw_catalog.v)
    /\ pc' = "parse"
    /\ i' = 1
    /\ UNCHANGED <<inputVars, loadVars, buildVars, salesVars, totalVars, report, out, log, writeVars,
                   stdout, status>>

\* --------------------------------------------------------- parse_sales
ParseNotList ==
    /\ pc = "parse"
    /\ ~IsInstanceList(raw_sales)
    /\ Emit(<<Msg("ERROR", "sales_not_list", 0, <<>>, 0, "sales", 0)>>)
    /\ pc' = "compute"
    /\ i' = 1
    /\ UNCHANGED <<inputVars, loadVars, buildVars, salesVars, totalVars, report, writeVars, stdout, status>>

ParseStep ==
    /\ pc = "parse"
    /\ IsInstanceList(raw_sales)
    /\ i <= Len(raw_sales.v)
    /\ LET r == ParseItem(raw_sales.v[i], i)
       IN  /\ parsed' = parsed \o r.lines
           /\ origin' = IF r.lines = <<>> THEN origin ELSE Append(origin, i)
           /\ Emit(r.msgs)
    /\ i' = i + 1
    /\ UNCHANGED <<pc, inputVars, loadVars, buildVars, totalVars, report, writeVars, stdout, status>>

ParseReturn ==
    /\ pc = "parse"
    /\ IsInstanceList(raw_sales)
    /\ i > Len(raw_sales.v)
    /\ pc' = "compute"
    /\ i' = 1
    /\ UNCHANGED <<inputVars, loadVars, buildVars, salesVars, totalVars, report, out, log, writeVars,
                   stdout, status>>

\* ------------------------------------------------------ compute_totals
ComputeStep ==
    /\ pc = "compute"
    /\ i <= Len(parsed)
    /\ LET r == ComputeLine(prices, totals_by_sale, grand_total, parsed[i], origin[i])
       IN  IF r.raised
           THEN /\ Raise
                /\ UNCHANGED <<totalVars, i, out, log>>
           ELSE /\ totals_by_sale' = r.totals
                /\ grand_total' = r.grand
                /\ Emit(r.msgs)
                /\ i' = i + 1
                /\ UNCHANGED <<pc, stdout, status>>
    /\ UNCHANGED <<inputVars, loadVars, buildVars, salesVars, report, writeVars>>

\* compute_totals returns; format_report, the elapsed time, the final text
ComputeReturn ==
    /\ pc = "compute"
    /\ i > Len(parsed)
    /\ \E elapsed \in ElapsedTimes :
         report' = <<_add_elapsed_to_report(
                        format_report(totals_by_sale, grand_total, 0), elapsed)>>
    /\ pc' = "print"
    /\ UNCHANGED <<inputVars, loadVars, buildVars, salesVars, i, totalVars, out, log, writeVars,
                   stdout, status>>

\* ------------------------------------------------ main: print and write
PrintReport ==
    /\ pc = "print"
    /\ printed' = report
    /\ Emit(<<Msg("INFO", "report", 0, <<>>, 0, "none", 0)>>)
    /\ pc' = "write_required"
    /\ UNCHANGED <<inputVars, loadVars, buildVars, salesVars, i, totalVars, report, stdout,
                   results_required, results_tc, status>>

\* what a write that raises OSError leaves behind: open() failed and the
\* file is as before, or the text was cut short before its last line
Truncated(content) == [j \in 1..Len(content) |-> [content[j] EXCEPT !.elapsed = 0 - 1]]
WriteOutcomes == {"ok", "open_failed", "write_failed"}

\* write_text_file with "pass" in its except clause
write_text_file_Silent(old, content, outcome, which) ==
    [content |-> CASE outcome = "ok" -> content
                   [] outcome = "open_failed" -> old
                   [] OTHER -> Truncated(content),
     msgs |-> <<>>]

\* write_text_file: the content after the call and the lines it prints
write_text_file(old, content, outcome, which) ==
    CASE outcome = "ok" ->
           [content |-> content, msgs |-> <<>>]
      [] outcome = "open_failed" ->
           [content |-> old,
            msgs |-> <<Msg("ERROR", "write_failed", 0, <<>>, 0, which, 0)>>]
      [] OTHER ->
           [content |-> Truncated(content),
            msgs |-> <<Msg("ERROR", "write_failed", 0, <<>>, 0, which, 0)>>]

WriteRequired ==
    /\ pc = "write_required"
    /\ \E outcome \in WriteOutcomes :
         LET r == write_text_file(results_required, report, outcome, "results_required")
         IN  /\ results_required' = r.content
             /\ Emit(r.msgs)
    /\ pc' = "write_tc"
    /\ UNCHANGED <<inputVars, loadVars, buildVars, salesVars, i, totalVars, report, printed,
                   results_tc, stdout, status>>

\* the second write, return 0 and the finally clause
WriteTc ==
    /\ pc = "write_tc"
    /\ \E outcome \in WriteOutcomes :
         LET r == write_text_file(results_tc, report, outcome, "results_tc")
         IN  /\ results_tc' = r.content
             /\ Emit(r.msgs)
    /\ status' = <<0>>
    /\ pc' = "done"
    /\ stdout' = FinallyStdout
    /\ UNCHANGED <<inputVars, loadVars, buildVars, salesVars, i, totalVars, report, printed,
                   results_required>>

\* ------------------------------------------------------- specifications
Blank ==
    /\ i = 1
    /\ totals_by_sale = <<>>
    /\ grand_total = Zero
    /\ report = <<>>
    /\ out = <<>>
    /\ log = <<>>
    /\ printed = <<>>
    /\ results_required = <<>>
    /\ results_tc = <<>>
    /\ status = <<>>

\* a whole run of main
Init ==
    /\ Blank
    /\ pc = "start"
    /\ stdout = "original"
    /\ attempted = {}
    /\ raw_catalog = JNull
    /\ raw_sales = JNull
    /\ prices = EmptyPrices
    /\ parsed = <<>>
    /\ origin = <<>>
    /\ \/ /\ argc = 3
          /\ catalog_file \in Files(MainCatalogItems, MainCatalogLen)
          /\ sales_file \in Files(MainSaleItems, MainSalesLen)
       \/ /\ argc \in {1, 2, 4}
          /\ catalog_file = File("missing", JNull)
          /\ sales_file = File("missing", JNull)

Next ==
    \/ CheckArgs
    \/ OpenLog
    \/ LoadCatalog
    \/ LoadSales
    \/ LoadFailed
    \/ BuildNotList
    \/ BuildStep
    \/ BuildReturn
    \/ ParseNotList
    \/ ParseStep
    \/ ParseReturn
    \/ ComputeStep
    \/ ComputeReturn
    \/ PrintReport
    \/ WriteRequired
    \/ WriteTc

Spec == Init /\ [][Next]_vars

\* build_price_catalog alone, called inside a run on every catalog document
InitCatalog ==
    /\ Blank
    /\ pc = "build"
    /\ stdout = "tee"
    /\ argc = 3
    /\ attempted = {"catalog", "sales"}
    /\ catalog_file \in {File("ok", d) : d \in NonListDocs \ {JNull}}
                        \cup {File("ok", JList(l)) : l \in SeqsUpTo(CatalogItems, MaxCatalogLen)}
    /\ sales_file = File("ok", JList(<<>>))
    /\ raw_catalog = catalog_file.doc
    /\ raw_sales = sales_file.doc
    /\ prices = EmptyPrices
    /\ parsed = <<>>
    /\ origin = <<>>

NextCatalog == BuildNotList \/ BuildStep \/ BuildReturn

SpecCatalog == InitCatalog /\ [][NextCatalog]_vars

\* parse_sales alone, called inside a run on every sales document
InitSales ==
    /\ Blank
    /\ pc = "parse"
    /\ stdout = "tee"
    /\ argc = 3
    /\ attempted = {"catalog", "sales"}
    /\ catalog_file = File("ok", JList(<<>>))
    /\ sales_file \in {File("ok", d) : d \in NonListDocs \ {JNull}}
                      \cup {File("ok", JList(l)) : l \in SeqsUpTo(SaleItems, MaxSalesLen)}
    /\ raw_catalog = catalog_file.doc
    /\ raw_sales = sales_file.doc
    /\ prices = EmptyPrices
    /\ parsed = <<>>
    /\ origin = <<>>

NextSales == ParseNotList \/ ParseStep \/ ParseReturn

SpecSales == InitSales /\ [][NextSales]_vars

\* compute_totals alone, on every catalog and every list of validated lines
InitTotals ==
    /\ Blank
    /\ pc = "compute"
    /\ stdout = "tee"
    /\ argc = 3
    /\ attempted = {"catalog", "sales"}
    /\ catalog_file = File("ok", JList(<<>>))
    /\ sales_file = File("ok", JList(<<>>))
    /\ raw_catalog = catalog_file.doc
    /\ raw_sales = sales_file.doc
    /\ prices \in Catalogs
    /\ parsed \in SeqsUpTo(LineValues, MaxLines)
    /\ origin = [j \in 1..Len(parsed) |-> j]

NextTotals == ComputeStep \/ ComputeReturn

SpecTotals == InitTotals /\ [][NextTotals]_vars

\* =================================================================== claims
\* the validated lines compute_totals has processed so far
Processed == SubSeq(parsed, 1, i - 1)
Matched(line) == line.product \in DOMAIN prices

\* sum(totals_by_sale.values()): Python adds the values in insertion order
RECURSIVE SumValues(_)
SumValues(d) ==
    IF d = <<>> THEN Zero
    ELSE FAdd(SumValues(SubSeq(d, 1, Len(d) - 1)), d[Len(d)].val)

\* the sum, in input order, of catalog[product] * quantity over the matched
\* lines of a list that carry one of the sale ids of ids
RECURSIVE LineSum(_, _)
LineSum(lines, ids) ==
    IF lines = <<>> THEN Zero
    ELSE LET line == lines[Len(lines)]
             rest == LineSum(SubSeq(lines, 1, Len(lines) - 1), ids)
         IN  IF Matched(line) /\ line.sale_id \in ids
             THEN FAdd(rest, FMul(prices[line.product], line.quantity))
             ELSE rest

AllIds == {1, 2}

\* C1: in compute_totals, after any prefix of the lines (and in the result),
\* grand_total equals the sum of the values of totals_by_sale, and both equal
\* the sum of catalog[product] * quantity over the matched lines processed.
C1_GrandTotalIsSumOfTotals ==
    pc \in {"compute", "print"} =>
        /\ grand_total = SumValues(totals_by_sale)
        /\ grand_total = LineSum(Processed, AllIds)

\* the exact sum, in units, of price * quantity over the matched lines of a
\* sale id, and the sum of the magnitudes of its terms
RECURSIVE ExactSum(_, _, _)
ExactSum(lines, id, magnitude) ==
    IF lines = <<>> THEN 0
    ELSE LET line == lines[Len(lines)]
             rest == ExactSum(SubSeq(lines, 1, Len(lines) - 1), id, magnitude)
             term == prices[line.product].u * line.quantity
         IN  IF Matched(line) /\ line.sale_id = id
             THEN rest + (IF magnitude THEN Abs(term) ELSE term)
             ELSE rest

\* the number of matched lines with a sale id
MatchedWith(lines, id) ==
    Cardinality({j \in 1..Len(lines) : Matched(lines[j]) /\ lines[j].sale_id = id})

\* C2: the map compute_totals returns has exactly the sale ids of the matched
\* lines as keys, once each, and each key maps to the sum, in input order, of
\* price * quantity over all matched lines with that sale id; where no
\* rounding can occur that is the exact sum, negative quantities subtracting.
C2_TotalsEqualReference ==
    pc = "print" =>
        /\ DictKeys(totals_by_sale) = {parsed[j].sale_id : j \in {n \in 1..Len(parsed) : Matched(parsed[n])}}
        /\ Cardinality(DictKeys(totals_by_sale)) = Len(totals_by_sale)
        /\ \A id \in DictKeys(totals_by_sale) :
             /\ DictGet(totals_by_sale, id, Zero) = LineSum(parsed, {id})
             /\ ExactSum(parsed, id, TRUE) < Pow2(MantissaBits)
                  => DictGet(totals_by_sale, id, Zero) = Fin(ExactSum(parsed, id, FALSE))

\* two matched lines share a sale id, one of them a return, and the result is in
C2_Witness ==
    /\ pc = "print"
    /\ \E id \in AllIds :
         /\ MatchedWith(parsed, id) >= 2
         /\ ExactSum(parsed, id, TRUE) < Pow2(MantissaBits)
         /\ \E j \in 1..Len(parsed) :
              Matched(parsed[j]) /\ parsed[j].sale_id = id /\ parsed[j].quantity < 0

\* the error lines compute_totals prints for a list of lines, in input order
RECURSIVE NotFoundErrors(_)
NotFoundErrors(lines) ==
    IF lines = <<>> THEN <<>>
    ELSE LET n == Len(lines)
             before == NotFoundErrors(SubSeq(lines, 1, n - 1))
         IN  IF Matched(lines[n])
             THEN before
             ELSE Append(before, Msg("ERROR", "product_not_found", 0, lines[n].product,
                                     lines[n].sale_id, "sales", n))

UnmatchedNext == pc = "compute" /\ i <= Len(parsed) /\ ~Matched(parsed[i])

\* C3: a line whose product is not in the catalog leaves totals_by_sale and
\* grand_total unchanged, prints exactly one [ERROR] line naming the product
\* and the sale id, and the loop goes on to the next line; the error lines
\* printed are those of the unmatched lines, in input order.
C3_UnmatchedLineIsReportedAndSkipped ==
    /\ [](pc \in {"compute", "print"} => out = NotFoundErrors(Processed))
    /\ [][UnmatchedNext =>
            /\ totals_by_sale' = totals_by_sale
            /\ grand_total' = grand_total
            /\ out' = Append(out, Msg("ERROR", "product_not_found", 0, parsed[i].product,
                                      parsed[i].sale_id, "sales", i))
            /\ pc' = "compute"
            /\ i' = i + 1]_vars

\* two unmatched lines around a matched one have been processed
C3_Witness ==
    /\ pc = "compute"
    /\ i = 4
    /\ ~Matched(parsed[1])
    /\ Matched(parsed[2])
    /\ ~Matched(parsed[3])
    /\ parsed[1] # parsed[3]
    /\ totals_by_sale # <<>>

\* -------------------------------------------------------- a whole run
Failed(file) == file.state \in FailedStates
Ended == pc = "done"
HasMsg(what) == \E j \in 1..Len(out) : out[j].what = what

\* C4: with two arguments, the sales load is attempted even when the catalog
\* load has failed; if either load failed the run prints the combined error,
\* builds, parses and aggregates nothing, writes neither result file and
\* ends with status 2.
C4_LoadFailureAbortsWithStatus2 ==
    (Ended /\ argc = 3 /\ "catalog" \in attempted) =>
        /\ Failed(catalog_file) => "sales" \in attempted
        /\ (Failed(catalog_file) \/ Failed(sales_file)) =>
             /\ status = <<2>>
             /\ HasMsg("load_failed")
             /\ prices = EmptyPrices
             /\ parsed = <<>>
             /\ totals_by_sale = <<>>
             /\ results_required = <<>>
             /\ results_tc = <<>>

\* C5: a run whose two documents exist, are readable and are valid JSON goes
\* on to aggregation and ends with status 0 whatever the top-level values
\* are; status 2 occurs only for a wrong argument count or a file that is
\* missing, unreadable or not valid JSON.
C5_OnlyLoadingDecidesFatal ==
    Ended =>
        /\ status = <<2>> => (argc # 3 \/ Failed(catalog_file) \/ Failed(sales_file))
        /\ ("sales" \in attempted /\ ~Failed(catalog_file) /\ ~Failed(sales_file))
              => status = <<0>>

\* C6: when main ends, on every path, sys.stdout is the original stream; the
\* tee is installed only once the log file is open and never outlives main.
C6_StdoutRestoredOnEveryExit ==
    /\ Ended => stdout = "original"
    /\ stdout = "tee" => pc \notin {"start", "open_log", "done"}

\* main has ended by an exception raised while the tee was installed
C6_Witness ==
    /\ Ended
    /\ status = Uncaught
    /\ "catalog" \in attempted
    /\ log # <<>>

\* what the specification calls a well-formed element
RefCatalogValid(item) ==
    /\ item.k = "dict"
    /\ item.v.title.k = "str"
    /\ Strip(item.v.title.v) # <<>>
    /\ item.v.price.k \in {"int", "float"}

RefSaleValid(item) ==
    /\ item.k = "dict"
    /\ item.v.SALE_ID.k = "int"
    /\ item.v.Product.k = "str"
    /\ Strip(item.v.Product.v) # <<>>
    /\ item.v.Quantity.k = "int"

About(doc, pos, sev) ==
    Cardinality({j \in 1..Len(out) : out[j].doc = doc /\ out[j].pos = pos /\ out[j].sev \in sev})

\* the lines of the report a list of validated, matched lines gives
RECURSIVE RefParse(_)
RefParse(items) ==
    IF items = <<>> THEN <<>>
    ELSE LET n == Len(items)
             before == RefParse(SubSeq(items, 1, n - 1))
         IN  IF RefSaleValid(items[n])
             THEN Append(before, SaleLine(items[n].v.SALE_ID.v, Strip(items[n].v.Product.v),
                                          items[n].v.Quantity.v))
             ELSE before

\* C7: parse_sales returns, in input order, exactly the elements that are
\* objects with an integer SALE_ID, a Product that is a string non-empty after
\* trimming and an integer Quantity; every other element is reported once and
\* skipped; a negative Quantity gives one warning, no error, and is included.
C7_ParseSalesKeepsExactlyTheValid ==
    (pc = "compute" /\ IsInstanceList(raw_sales)) =>
        /\ parsed = RefParse(raw_sales.v)
        /\ \A n \in 1..Len(raw_sales.v) :
             IF ~RefSaleValid(raw_sales.v[n])
             THEN About("sales", n, {"ERROR"}) = 1 /\ About("sales", n, {"WARN"}) = 0
             ELSE /\ About("sales", n, {"ERROR"}) = 0
                  /\ About("sales", n, {"WARN"}) =
                        (IF raw_sales.v[n].v.Quantity.v < 0 THEN 1 ELSE 0)

\* the mapping of the well-formed elements, the last of a title winning
RECURSIVE RefCatalog(_)
RefCatalog(items) ==
    IF items = <<>> THEN EmptyPrices
    ELSE LET n == Len(items)
             before == RefCatalog(SubSeq(items, 1, n - 1))
         IN  IF RefCatalogValid(items[n])
             THEN PricesSet(before, Strip(items[n].v.title.v), ToFloat(items[n].v.price))
             ELSE before

\* C8: build_price_catalog never fails and returns the mapping of the
\* elements that are objects with a title that is a string non-empty after
\* trimming and a price that is an integer or a floating-point number, under
\* the trimmed title, the last element of a title winning; every other
\* element is reported and left out.
C8_BuildCatalogKeepsExactlyTheValid ==
    /\ status # Uncaught
    /\ (pc = "parse" /\ IsInstanceList(raw_catalog)) =>
         /\ prices = RefCatalog(raw_catalog.v)
         /\ \A n \in 1..Len(raw_catalog.v) :
              About("catalog", n, {"ERROR", "WARN"}) =
                 (IF RefCatalogValid(raw_catalog.v[n]) THEN 0 ELSE 1)
    /\ (pc = "parse" /\ ~IsInstanceList(raw_catalog)) =>
         /\ prices = EmptyPrices
         /\ Len(out) = 1

\* the elements of the two documents
CatalogElems == IF IsInstanceList(raw_catalog) THEN raw_catalog.v ELSE <<>>
SalesElems == IF IsInstanceList(raw_sales) THEN raw_sales.v ELSE <<>>

\* a sales element that is well-formed but names a product not in the catalog
Unmatched(item) == RefSaleValid(item) /\ Strip(item.v.Product.v) \notin DOMAIN prices

\* the validated lines of the sales elements whose product is in the catalog
RECURSIVE MatchedLines(_)
MatchedLines(lines) ==
    IF lines = <<>> THEN <<>>
    ELSE LET n == Len(lines)
             before == MatchedLines(SubSeq(lines, 1, n - 1))
         IN  IF Matched(lines[n]) THEN Append(before, lines[n]) ELSE before

\* C9: over a run that loads both documents and ends with status 0, every
\* element that is dropped by build_price_catalog, dropped by parse_sales or
\* unmatched in compute_totals has exactly one printed line about it, whatever
\* its defects, and the totals of the report are those of the validated and
\* matched elements alone.
C9_OneMessagePerSkippedElement ==
    (Ended /\ status = <<0>>) =>
        /\ \A n \in 1..Len(CatalogElems) :
             ~RefCatalogValid(CatalogElems[n]) =>
                 About("catalog", n, {"ERROR", "WARN"}) = 1
        /\ \A n \in 1..Len(SalesElems) :
             (~RefSaleValid(SalesElems[n]) \/ Unmatched(SalesElems[n])) =>
                 About("sales", n, {"ERROR", "WARN"}) = 1
        /\ printed = <<format_report(
                          [j \in 1..Len(SortedKeys(DictKeys(totals_by_sale))) |->
                              [key |-> SortedKeys(DictKeys(totals_by_sale))[j],
                               val |-> LineSum(RefParse(SalesElems),
                                               {SortedKeys(DictKeys(totals_by_sale))[j]})]],
                          LineSum(MatchedLines(RefParse(SalesElems)), AllIds),
                          printed[1].elapsed)>>

\* C10 as stated: in every run that ends with status 0 the report text that
\* was printed is the content of results/SalesResults.txt and of
\* results/<run-id>_SalesResults.txt.
C10_ReportWrittenToBothFiles ==
    (Ended /\ status = <<0>>) =>
        /\ printed # <<>>
        /\ results_required = printed
        /\ results_tc = printed

WriteFailures(which) ==
    Cardinality({j \in 1..Len(out) : out[j].what = "write_failed" /\ out[j].doc = which})

\* C10 amended: in every run that ends with status 0 the report was printed
\* and, for each of the two locations, either the write succeeded and the
\* content is the printed text, or the write raised OSError and exactly one
\* [ERROR] line names the path.
C10_ReportWrittenOrFailureReported ==
    (Ended /\ status = <<0>>) =>
        /\ printed # <<>>
        /\ printed = report
        /\ \/ results_required = printed /\ WriteFailures("results_required") = 0
           \/ WriteFailures("results_required") = 1
        /\ \/ results_tc = printed /\ WriteFailures("results_tc") = 0
           \/ WriteFailures("results_tc") = 1

\* a run that ends with status 0: one write succeeded and the other failed
C10_Witness ==
    /\ Ended
    /\ status = <<0>>
    /\ results_required = printed
    /\ results_tc # printed
    /\ WriteFailures("results_tc") = 1
    /\ printed[1].lines # <<>>

====
